---- MODULE Spec2Model ----
(***************************************************************************)
(* Booking / availability consistency protocol of the campus parking       *)
(* backend (server file src/unnamed/part_004).  The persistent store is    *)
(* MongoDB accessed through Mongoose: a multi-document transaction reads   *)
(* from the snapshot taken at its first operation, sees none of the        *)
(* uncommitted writes of other transactions, and aborts on a write to a    *)
(* document or unique key another writer holds; inserts of distinct        *)
(* documents never conflict.  Every `await` on a database call is a point  *)
(* where other handlers run.                                               *)
(***************************************************************************)
EXTENDS Integers, Sequences, FiniteSets, Bags, TLC

\* ---- bounds of the model ----
MaxBookings == 2
MaxRequests == 2
MaxSlots == 2
MaxDate == 1
MaxNow == 24
TickStep == 12
MaxEvents == 1
MaxTimers == 2
MaxRemindHour == 34

\* ---- program constants ----
StartHour == 8
HoursPerDay == 24
MaxReconnects == 5
MinutesPerHour == 60

Procs == {"p1", "p2"}

\* runs of the expiry sweep that can be in progress together: the hourly run and
\* the start-up run (or the run of the hour before)
Runs == {"r1", "r2"}
Users == {"u1", "u2", "u3"}
ZoneIds == {"z1"}
ZoneTypes == {"staff"}
Dates == 0..MaxDate
Durations == {1}
AddHours == {1}

\* the sockets the WebSocket server may hold
Conns == {"w1", "w2"}

\* the WebSocket objects the mobile client may hold at one time
Socks == {"s1", "s2"}

VARIABLES zones, bookings, events, notifications, sent, proc, sweep, now, nreq, out,
          clients, conns, mobile, minute, reminders, remjob

vars == <<zones, bookings, events, notifications, sent, proc, sweep, now, nreq, out,
          clients, conns, mobile, minute, reminders, remjob>>

\* the observer registry with its connections, and the state of the reminder job
observers == <<clients, conns>>
reminding == <<minute, reminders, remjob>>

\* the callers of the access-rule check: Users, a visitor, and a user whose token
\* carries a role outside the table
AllUsers == Users \cup {"u4", "u5"}

\* the zone types of parkingZoneSchema
AllZoneTypes == {"student", "staff", "visitor", "general", "event"}

\* role carried by the JWT of each user
userRole == [u \in AllUsers |->
               IF u = "u1" THEN "student" ELSE IF u = "u2" THEN "staff"
               ELSE IF u = "u3" THEN "admin" ELSE IF u = "u4" THEN "visitor" ELSE "guest"]

\* every zone type allowed to every role
accessRulesOpen(r) == AllZoneTypes

accessRules(r) ==
    IF r = "student" THEN {"student", "general"}
    ELSE IF r = "staff" THEN {"staff", "student", "general"}
    ELSE IF r = "visitor" THEN {"visitor", "general"}
    ELSE IF r = "admin" THEN {"student", "staff", "visitor", "general", "event"}
    ELSE {"general"}

Max(a, b) == IF a >= b THEN a ELSE b

Unset == <<>>

NoZone == [exists |-> FALSE, totalSlots |-> 0, type |-> "none"]

NoDoc == [userId |-> "none", zoneId |-> "none", date |-> 0, startTime |-> 0,
          endTime |-> 0, duration |-> 0, qrCode |-> 0, status |-> "none",
          checkInTime |-> Unset, checkOutTime |-> Unset, violations |-> <<>>]

Idle == [pc |-> "idle", op |-> "none", uid |-> "none",
         zoneId |-> "none", date |-> 0, dur |-> 0, bid |-> 0,
         snapB |-> <<>>, zdoc |-> NoZone, cnt |-> 0, doc |-> NoDoc,
         wrote |-> 0]

\* no run of the sweep in progress
IdleRun == [pc |-> "idle", at |-> 0, queue |-> <<>>]

\* a handler slot is free before its first request and after each response
Free(p) == proc[p].pc = "idle"

\* what the step just taken answered, if it answered a request
NoOut == [op |-> "none", resp |-> "none"]

Out(op, r) == [op |-> op, resp |-> r]

\* the calendar day an instant falls in (startOfDay / endOfDay windows)
DayOf(t) == t \div HoursPerDay

\* Booking.countDocuments({zoneId, status: 'active', date: [startOfDay, endOfDay]})
CountActive(bs, z, d) ==
    Cardinality({i \in DOMAIN bs : bs[i].zoneId = z /\ bs[i].status = "active"
                                   /\ bs[i].date = d})

\* Event.aggregate: sum of allocatedSlots of the zone's events dated >= day d
RECURSIVE SumAlloc(_)
SumAlloc(es) ==
    IF es = {} THEN 0
    ELSE LET e == CHOOSE x \in es : TRUE IN e.allocatedSlots + SumAlloc(es \ {e})

EventSlots(es, z, d) == SumAlloc({e \in es : e.zoneId = z /\ e.date >= d})

\* getZoneAvailability: today's active bookings only, no event allocations;
\* -1 stands for the null it returns when the zone is gone
getZoneAvailability(zs, bs, z, t) ==
    IF ~zs[z].exists THEN 0 - 1
    ELSE Max(0, zs[z].totalSlots - CountActive(bs, z, DayOf(t)))

\* GET /api/zones: today's active bookings and the events dated today or later
ZoneListAvailable(zs, bs, es, z, t) ==
    Max(0, zs[z].totalSlots - CountActive(bs, z, DayOf(t)) - EventSlots(es, z, DayOf(t)))

\* GET /api/zones/:zoneId/availability?date=d
AvailabilityEndpoint(zs, bs, z, d) ==
    Max(0, zs[z].totalSlots - CountActive(bs, z, d))

Ev(type, z, avail, bid, op) ==
    [type |-> type, zoneId |-> z, available |-> avail, bid |-> bid, op |-> op]

Notif(u, title, bid) == [userId |-> u, title |-> title, bid |-> bid]

\* broadcast(data): one more event handed to the connected observers
broadcast(s, e) == s (+) SetToBag({e})

\* ===== WebSocket observers (wss, clients) =====

\* a socket the server does not hold
NoConn == [readyState |-> "NONE", isAlive |-> FALSE, answers |-> FALSE,
           awaiting |-> FALSE, silent |-> 0, inbox |-> EmptyBag]

\* the members of clients whose readyState is WebSocket.OPEN
OpenClients(reg) == {c \in reg.clients : reg.conns[c].readyState = "OPEN"}

\* one call of broadcast(data) in which client.send throws for the open
\* clients in T and the exception escapes the loop: nothing is delivered and
\* nothing is pruned
broadcastUncaught(reg, e, T) ==
    IF T # {} THEN reg
    ELSE [clients |-> OpenClients(reg),
          conns |-> [c \in Conns |->
                       IF c \in OpenClients(reg)
                       THEN [reg.conns[c] EXCEPT !.inbox = @ (+) SetToBag({e})]
                       ELSE reg.conns[c]]]

\* one call of broadcast(data) that sends to the open clients outside T and
\* deletes nobody from the registry
broadcastKeep(reg, e, T) ==
    [clients |-> reg.clients,
     conns |-> [c \in Conns |->
                  IF c \in OpenClients(reg) \ T
                  THEN [reg.conns[c] EXCEPT !.inbox = @ (+) SetToBag({e})]
                  ELSE reg.conns[c]]]

\* one call of broadcast(data) in which client.send throws for the open
\* clients in T: every other open client is sent the message once; the clients
\* found not open and those in T are deleted from the registry
broadcastTo(reg, e, T) ==
    [clients |-> OpenClients(reg) \ T,
     conns |-> [c \in Conns |->
                  IF c \in OpenClients(reg) \ T
                  THEN [reg.conns[c] EXCEPT !.inbox = @ (+) SetToBag({e})]
                  ELSE reg.conns[c]]]

\* the broadcast calls of a step in the order the handlers make them:
\* zone_update first, then the event about the booking
RECURSIVE InOrder(_)
InOrder(D) ==
    IF D = EmptyBag THEN <<>>
    ELSE LET S == BagToSet(D)
             e == IF \E x \in S : x.type = "zone_update"
                  THEN CHOOSE x \in S : x.type = "zone_update"
                  ELSE CHOOSE x \in S : TRUE
         IN <<e>> \o InOrder(D (-) SetToBag({e}))

\* the registry after the broadcast calls of the step being taken, each with
\* its own set of throwing sends
Deliver ==
    LET calls == InOrder(sent' (-) sent)
        reg0 == [clients |-> clients, conns |-> conns] IN
      IF calls = <<>> THEN UNCHANGED <<clients, conns>>
      ELSE \E T1 \in SUBSET OpenClients(reg0) :
             LET reg1 == broadcastTo(reg0, calls[1], T1) IN
               IF Len(calls) = 1
               THEN clients' = reg1.clients /\ conns' = reg1.conns
               ELSE \E T2 \in SUBSET OpenClients(reg1) :
                      LET reg2 == broadcastTo(reg1, calls[2], T2) IN
                        clients' = reg2.clients /\ conns' = reg2.conns

\* wss.on('connection'): the socket is registered with isAlive = true
Connect(c) ==
    /\ conns[c].readyState = "NONE"
    /\ clients' = clients \cup {c}
    /\ conns' = [conns EXCEPT ![c] = [NoConn EXCEPT !.readyState = "OPEN",
                                                   !.isAlive = TRUE, !.answers = TRUE]]
    /\ out' = NoOut
    /\ UNCHANGED <<zones, bookings, events, notifications, sent, proc, sweep, now, nreq,
                   mobile, reminding>>

\* the peer or the network ends the connection; its close event is still to come
Drop(c) ==
    /\ conns[c].readyState = "OPEN"
    /\ conns' = [conns EXCEPT ![c].readyState = "CLOSING"]
    /\ out' = NoOut
    /\ UNCHANGED <<zones, bookings, events, notifications, sent, proc, sweep, now, nreq,
                   clients, mobile, reminding>>

\* ws.on('close'): clients.delete(ws); wss stops tracking the socket
OnClose(c) ==
    /\ conns[c].readyState = "CLOSING"
    /\ clients' = clients \ {c}
    /\ conns' = [conns EXCEPT ![c] = NoConn]
    /\ out' = NoOut
    /\ UNCHANGED <<zones, bookings, events, notifications, sent, proc, sweep, now, nreq,
                   mobile, reminding>>

\* ws.on('error'): clients.delete(ws); the socket is destroyed and closes
OnError(c) ==
    /\ conns[c].readyState = "OPEN"
    /\ clients' = clients \ {c}
    /\ conns' = [conns EXCEPT ![c].readyState = "CLOSING"]
    /\ out' = NoOut
    /\ UNCHANGED <<zones, bookings, events, notifications, sent, proc, sweep, now, nreq,
                   mobile, reminding>>

\* the peer stops answering pings while its socket stays open
GoSilent(c) ==
    /\ conns[c].readyState = "OPEN"
    /\ conns[c].answers
    /\ conns' = [conns EXCEPT ![c].answers = FALSE]
    /\ out' = NoOut
    /\ UNCHANGED <<zones, bookings, events, notifications, sent, proc, sweep, now, nreq,
                   clients, mobile, reminding>>

\* a pong handler that notes the answer and leaves isAlive as it is
PongIgnored(c) ==
    /\ conns[c].readyState = "OPEN"
    /\ conns[c].awaiting
    /\ conns[c].answers
    /\ conns' = [conns EXCEPT ![c].awaiting = FALSE]
    /\ out' = NoOut
    /\ UNCHANGED <<zones, bookings, events, notifications, sent, proc, sweep, now, nreq,
                   clients, mobile, reminding>>

\* ws.on('pong'): ws.isAlive = true
Pong(c) ==
    /\ conns[c].readyState = "OPEN"
    /\ conns[c].awaiting
    /\ conns[c].answers
    /\ conns' = [conns EXCEPT ![c].isAlive = TRUE, ![c].awaiting = FALSE]
    /\ out' = NoOut
    /\ UNCHANGED <<zones, bookings, events, notifications, sent, proc, sweep, now, nreq,
                   clients, mobile, reminding>>

\* heartbeatInterval: every socket wss tracks is terminated and deleted from
\* clients when isAlive is false, else marked and pinged; silent counts the
\* ticks an open socket has met since its peer stopped answering
Heartbeat ==
    /\ \E c \in Conns : conns[c].readyState # "NONE"
    /\ clients' = clients \ {c \in Conns : conns[c].readyState # "NONE" /\ ~conns[c].isAlive}
    /\ conns' = [c \in Conns |->
                   LET w == conns[c]
                       met == IF w.readyState = "OPEN" /\ ~w.answers THEN w.silent + 1
                              ELSE w.silent IN
                     IF w.readyState = "NONE" THEN w
                     ELSE IF ~w.isAlive
                          THEN [w EXCEPT !.readyState = "CLOSING", !.awaiting = FALSE,
                                         !.silent = met]
                          ELSE [w EXCEPT !.isAlive = FALSE,
                                         !.awaiting = (w.readyState = "OPEN"),
                                         !.silent = met]]
    /\ out' = NoOut
    /\ UNCHANGED <<zones, bookings, events, notifications, sent, proc, sweep, now, nreq,
                   mobile, reminding>>

\* the 30-second cleanup interval: clients that are not open are deleted
Cleanup ==
    /\ clients # OpenClients([clients |-> clients, conns |-> conns])
    /\ clients' = OpenClients([clients |-> clients, conns |-> conns])
    /\ out' = NoOut
    /\ UNCHANGED <<zones, bookings, events, notifications, sent, proc, sweep, now, nreq,
                   conns, mobile, reminding>>

Create(ns, n) == ns (+) SetToBag({n})

InFlightReserves == Cardinality({p \in Procs : proc[p].op = "reserve"})

\* res.json / res.status(...).json: the request is answered, its locals die
Respond(p, r) ==
    /\ proc' = [proc EXCEPT ![p] = Idle]
    /\ out' = Out(proc[p].op, r)

\* the first step of a handler: rejected with r at once, or admitted ("go")
\* with the locals l
Admit(p, op, r, l) ==
    /\ Free(p)
    /\ nreq < MaxRequests
    /\ proc' = [proc EXCEPT ![p] = IF r = "go" THEN l ELSE Idle]
    /\ out' = IF r = "go" THEN NoOut ELSE Out(op, r)
    /\ nreq' = IF r = "go" THEN nreq + 1 ELSE nreq

\* the document POST /api/bookings inserts
NewBooking(uid, z, d, dur, qr) ==
    [userId |-> uid, zoneId |-> z, date |-> d,
     startTime |-> d * HoursPerDay + StartHour,
     endTime |-> d * HoursPerDay + StartHour + dur,
     duration |-> dur, qrCode |-> qr, status |-> "active",
     checkInTime |-> Unset, checkOutTime |-> Unset, violations |-> <<>>]

\* ===== mobile client: connectWebSocket / disconnectWebSocket =====

\* the app before anyone logs in: currentUser null, wsRef null, no socket
SignedOut == [user |-> FALSE, wsRef |-> "null", socks |-> [k \in Socks |-> "none"],
              attempts |-> 0, timers |-> 0]

\* connectWebSocket(): nothing when wsRef holds an open socket, else a new
\* WebSocket k that replaces wsRef.current
connectWebSocket(m, k) ==
    IF m.wsRef # "null" /\ m.socks[m.wsRef] = "open" THEN m
    ELSE [m EXCEPT !.socks[k] = "connecting", !.wsRef = k]

\* disconnectWebSocket(): reconnectTimeoutRef is never assigned, so no timer is
\* cleared; the socket in wsRef is closed and forgotten, the attempts are reset
disconnectWebSocket(m) ==
    [m EXCEPT !.socks = [k \in Socks |-> IF k = m.wsRef /\ m.socks[k] \in {"connecting", "open"}
                                         THEN "closing" ELSE m.socks[k]],
              !.wsRef = "null",
              !.attempts = 0]

\* the sockets connectWebSocket may take for a new WebSocket
FreeSocks(m) ==
    IF m.wsRef # "null" /\ m.socks[m.wsRef] = "open" THEN {m.wsRef}
    ELSE {k \in Socks : m.socks[k] = "none"}

\* setCurrentUser(response.user): the effect on [currentUser] connects
Login ==
    /\ ~mobile.user
    /\ \E k \in FreeSocks(mobile) :
         mobile' = connectWebSocket([mobile EXCEPT !.user = TRUE], k)
    /\ out' = NoOut
    /\ UNCHANGED <<zones, bookings, events, notifications, sent, proc, sweep, now, nreq,
                   observers, reminding>>

\* setCurrentUser(null): the clean-up of the effect and the effect disconnect
Logout ==
    /\ mobile.user
    /\ mobile' = disconnectWebSocket([mobile EXCEPT !.user = FALSE])
    /\ out' = NoOut
    /\ UNCHANGED <<zones, bookings, events, notifications, sent, proc, sweep, now, nreq,
                   observers, reminding>>

\* ws.onopen: reconnectAttemptsRef.current = 0
SockOpen(k) ==
    /\ mobile.socks[k] = "connecting"
    /\ mobile' = [mobile EXCEPT !.socks[k] = "open", !.attempts = 0]
    /\ out' = NoOut
    /\ UNCHANGED <<zones, bookings, events, notifications, sent, proc, sweep, now, nreq,
                   observers, reminding>>

\* ws.onclose (a failed connect, a lost connection or the end of close()):
\* currentUser is the user of the render that made the socket, never null, so
\* only the attempts decide whether a reconnect is scheduled
SockClose(k) ==
    /\ mobile.socks[k] # "none"
    /\ mobile.timers < MaxTimers
    /\ mobile' = IF mobile.attempts < MaxReconnects
                 THEN [mobile EXCEPT !.socks[k] = "none", !.attempts = @ + 1, !.timers = @ + 1]
                 ELSE [mobile EXCEPT !.socks[k] = "none"]
    /\ out' = NoOut
    /\ UNCHANGED <<zones, bookings, events, notifications, sent, proc, sweep, now, nreq,
                   observers, reminding>>

\* the setTimeout callback: its currentUser is the same stale user, so it
\* always calls connectWebSocket()
TimerFire ==
    /\ mobile.timers > 0
    /\ \E k \in FreeSocks(mobile) :
         mobile' = connectWebSocket([mobile EXCEPT !.timers = @ - 1], k)
    /\ out' = NoOut
    /\ UNCHANGED <<zones, bookings, events, notifications, sent, proc, sweep, now, nreq,
                   observers, reminding>>

\* ===== sendBookingReminders (cron '*/10 * * * *') =====

IdleJob == [pc |-> "idle", due |-> FALSE, at |-> 0, queue |-> <<>>]

\* the instant in minutes: now counts the hours, minute the minutes past the hour
Clock == now * MinutesPerHour + minute

Reminder(u, title, bid, t) == [userId |-> u, title |-> title, bid |-> bid, createdAt |-> t]

\* the $or of the query at instant t: startTime within 5 minutes of t + 24 h or
\* of t + 1 h, or endTime between t + 15 and t + 25 minutes
NeedsReminder(doc, t) ==
    LET start == doc.startTime * MinutesPerHour
        end == doc.endTime * MinutesPerHour IN
      /\ doc.status = "active"
      /\ \/ (start >= t + HoursPerDay * MinutesPerHour - 5
             /\ start <= t + HoursPerDay * MinutesPerHour + 5)
         \/ (start >= t + MinutesPerHour - 5 /\ start <= t + MinutesPerHour + 5)
         \/ (end >= t + 15 /\ end <= t + 25)

\* the if / else-if chain that picks the reminder; "" when no branch applies
reminderTitle(doc, t) ==
    LET timeDiffStart == doc.startTime * MinutesPerHour - t
        timeDiffEnd == doc.endTime * MinutesPerHour - t
        day == HoursPerDay * MinutesPerHour IN
      IF timeDiffStart > 0 /\ timeDiffStart <= day + 10 /\ timeDiffStart >= day - 5
      THEN "Parking Reminder - Tomorrow"
      ELSE IF timeDiffStart > 0 /\ timeDiffStart <= MinutesPerHour + 10
              /\ timeDiffStart >= MinutesPerHour - 5
      THEN "Parking Reminder - 1 Hour"
      ELSE IF timeDiffEnd > 0 /\ timeDiffEnd <= 25 /\ timeDiffEnd >= 15
      THEN "Parking Expiring Soon"
      ELSE ""

RECURSIVE Needing(_, _)
Needing(i, t) ==
    IF i > Len(bookings) THEN <<>>
    ELSE (IF NeedsReminder(bookings[i], t) THEN <<[id |-> i, doc |-> bookings[i]]>> ELSE <<>>)
         \o Needing(i + 1, t)

\* Notification.findOne({ userId, title, createdAt >= now - 15 min })
existingReminder(u, title, t) ==
    \E n \in BagToSet(reminders) : n.userId = u /\ n.title = title /\ n.createdAt >= t - 15

\* the job goes on to the next booking of the run, or ends
NextReminder(j) ==
    IF Len(j.queue) = 1 THEN IdleJob ELSE [j EXCEPT !.pc = "m_check", !.queue = Tail(@)]

\* cron '*/10 * * * *': ten minutes pass and a run is due; the run of the
\* mark before has ended
Tick10 ==
    /\ remjob.pc = "idle"
    /\ ~remjob.due
    /\ Clock + 10 <= MaxRemindHour * MinutesPerHour
    /\ minute' = (minute + 10) % MinutesPerHour
    /\ now' = IF minute + 10 = MinutesPerHour THEN now + 1 ELSE now
    /\ remjob' = [remjob EXCEPT !.due = TRUE]
    /\ out' = NoOut
    /\ UNCHANGED <<zones, bookings, events, notifications, sent, proc, sweep, nreq,
                   observers, mobile, reminders>>

\* Booking.find of the run
RemindFind ==
    /\ remjob.pc = "idle"
    /\ remjob.due
    /\ remjob' = IF Needing(1, Clock) = <<>> THEN IdleJob
                 ELSE [pc |-> "m_check", due |-> FALSE, at |-> Clock,
                       queue |-> Needing(1, Clock)]
    /\ out' = NoOut
    /\ UNCHANGED <<zones, bookings, events, notifications, sent, proc, sweep, now, nreq,
                   observers, mobile, minute, reminders>>

\* the reminder is chosen and Notification.findOne looks for one already sent
RemindCheck ==
    /\ remjob.pc = "m_check"
    /\ LET h == Head(remjob.queue)
           title == reminderTitle(h.doc, remjob.at) IN
         remjob' = IF title = "" \/ existingReminder(h.doc.userId, title, remjob.at)
                   THEN NextReminder(remjob)
                   ELSE [remjob EXCEPT !.pc = "m_create"]
    /\ out' = NoOut
    /\ UNCHANGED <<zones, bookings, events, notifications, sent, proc, sweep, now, nreq,
                   observers, mobile, minute, reminders>>

\* Notification.create of the reminder
RemindCreate ==
    /\ remjob.pc = "m_create"
    /\ LET h == Head(remjob.queue) IN
         reminders' = reminders (+) SetToBag({Reminder(h.doc.userId,
                                                       reminderTitle(h.doc, remjob.at),
                                                       h.id, Clock)})
    /\ remjob' = NextReminder(remjob)
    /\ out' = NoOut
    /\ UNCHANGED <<zones, bookings, events, notifications, sent, proc, sweep, now, nreq,
                   observers, mobile, minute>>

sendBookingReminders == RemindFind \/ RemindCheck \/ RemindCreate

\* no observer is connected, the app is signed out, no reminder job has run
Quiet ==
    /\ clients = {}
    /\ conns = [c \in Conns |-> NoConn]
    /\ mobile = SignedOut
    /\ minute = 0
    /\ reminders = EmptyBag
    /\ remjob = IdleJob

\* the store is empty, or holds what one completed reserve leaves behind (the
\* booking of staff user u2 for day 0, its notification, its two broadcasts)
Init ==
    /\ zones \in [ZoneIds -> [exists : {TRUE}, totalSlots : 1..MaxSlots, type : ZoneTypes]]
    /\ events = {}
    /\ \/ /\ bookings = <<>>
          /\ notifications = EmptyBag
          /\ sent = EmptyBag
       \/ /\ bookings = <<NewBooking("u2", "z1", 0, 1, 1)>>
          /\ notifications = SetToBag({Notif("u2", "Booking Confirmed", 1)})
          /\ sent = SetToBag({Ev("zone_update", "z1", zones["z1"].totalSlots - 1, 1, "reserve"),
                              Ev("booking_created", "z1", 0, 1, "reserve")})
    /\ proc = [p \in Procs |-> Idle]
    /\ sweep = [r \in Runs |-> IdleRun]
    /\ now = 0
    /\ nreq = 0
    /\ out = NoOut
    /\ Quiet

\* ===== POST /api/bookings =====

\* Booking.findOne({userId, zoneId, status: 'active', date: that day})
existingBooking(bs, uid, z, d) ==
    \E i \in DOMAIN bs : /\ bs[i].userId = uid
                         /\ bs[i].zoneId = z
                         /\ bs[i].status = "active"
                         /\ bs[i].date = d

\* startSession, startTransaction, the req.user.id !== userId check, then
\* Zone.findById(zoneId).session(session): the first read, which fixes the
\* snapshot of the transaction; then the role-based access rule
ReserveFindZone(p, auth, uid, z, d, dur) ==
    /\ Len(bookings) + InFlightReserves < MaxBookings
    /\ LET r == IF auth # uid THEN "unauthorized"
                ELSE IF ~zones[z].exists THEN "zone_not_found"
                ELSE IF zones[z].type \notin accessRules(userRole[auth])
                THEN "access_denied"
                ELSE "go"
           l == [Idle EXCEPT !.op = "reserve", !.pc = "r_existing", !.uid = uid,
                             !.zoneId = z, !.date = d, !.dur = dur,
                             !.zdoc = zones[z], !.snapB = bookings]
       IN Admit(p, "reserve", r, l)
    /\ UNCHANGED <<zones, bookings, events, notifications, sent, sweep, now, observers, mobile, reminding>>

\* Booking.findOne(...).session(session): read from the snapshot
ReserveFindExisting(p) ==
    /\ proc[p].pc = "r_existing"
    /\ IF existingBooking(proc[p].snapB, proc[p].uid, proc[p].zoneId, proc[p].date)
       THEN Respond(p, "duplicate")
       ELSE proc' = [proc EXCEPT ![p].pc = "r_count"] /\ out' = NoOut
    /\ UNCHANGED <<zones, bookings, events, notifications, sent, sweep, now, nreq, observers, mobile, reminding>>

\* Booking.countDocuments(...).session(session) compared with zone.totalSlots
ReserveCount(p) ==
    /\ proc[p].pc = "r_count"
    /\ LET c == CountActive(proc[p].snapB, proc[p].zoneId, proc[p].date) IN
         IF c >= proc[p].zdoc.totalSlots THEN Respond(p, "no_slots")
         ELSE /\ proc' = [proc EXCEPT ![p].pc = "r_save", ![p].cnt = c, ![p].snapB = <<>>]
              /\ out' = NoOut
    /\ UNCHANGED <<zones, bookings, events, notifications, sent, sweep, now, nreq, observers, mobile, reminding>>

\* tokens held by committed bookings and by the uncommitted inserts of others
TakenCodes(p) ==
    {bookings[i].qrCode : i \in DOMAIN bookings}
      \cup {proc[q].doc.qrCode : q \in {r \in Procs \ {p} : proc[r].op = "reserve"
                                                            /\ proc[r].wrote > 0}}

\* generateQRCode(): a random token, either one already taken or a fresh one
\* (one representative of the fresh tokens: the least)
generateQRCode(p) ==
    TakenCodes(p) \cup {CHOOSE c \in 1..(MaxBookings + 1) :
                           /\ c \notin TakenCodes(p)
                           /\ \A e \in 1..(MaxBookings + 1) :
                                 e \notin TakenCodes(p) => c <= e}

\* the insert with no unique index on qrCode
ReserveSaveNoIndex(p, qr) ==
    /\ proc[p].pc = "r_save"
    /\ proc' = [proc EXCEPT ![p].pc = "r_notify", ![p].wrote = 1,
                            ![p].doc = NewBooking(proc[p].uid, proc[p].zoneId,
                                                  proc[p].date, proc[p].dur, qr)]
    /\ out' = NoOut
    /\ UNCHANGED <<zones, bookings, events, notifications, sent, sweep, now, nreq, observers, mobile, reminding>>

\* booking.save({ session }): insert inside the transaction; the unique index
\* on qrCode rejects a taken token
ReserveSave(p, qr) ==
    /\ proc[p].pc = "r_save"
    /\ IF qr \in TakenCodes(p) THEN Respond(p, "server_error")
       ELSE /\ proc' = [proc EXCEPT ![p].pc = "r_notify", ![p].wrote = 1,
                           ![p].doc = NewBooking(proc[p].uid, proc[p].zoneId,
                                                 proc[p].date, proc[p].dur, qr)]
            /\ out' = NoOut
    /\ UNCHANGED <<zones, bookings, events, notifications, sent, sweep, now, nreq, observers, mobile, reminding>>

\* the notification written without the session: visible before the commit
ReserveNotifyNoSession(p) ==
    /\ proc[p].pc = "r_notify"
    /\ notifications' = Create(notifications,
                               Notif(proc[p].uid, "Booking Confirmed", Len(bookings) + 1))
    /\ proc' = [proc EXCEPT ![p].pc = "r_commit", ![p].wrote = 2]
    /\ out' = NoOut
    /\ UNCHANGED <<zones, bookings, events, sent, sweep, now, nreq, observers, mobile, reminding>>

\* the two broadcasts placed above commitTransaction
ReserveNotifyThenBroadcast(p) ==
    /\ proc[p].pc = "r_notify"
    /\ sent' = broadcast(broadcast(sent,
                  Ev("zone_update", proc[p].zoneId,
                     Max(0, proc[p].zdoc.totalSlots - (proc[p].cnt + 1)),
                     Len(bookings) + 1, "reserve")),
                  Ev("booking_created", proc[p].zoneId, 0, Len(bookings) + 1, "reserve"))
    /\ proc' = [proc EXCEPT ![p].pc = "r_commit", ![p].wrote = 2]
    /\ out' = NoOut
    /\ UNCHANGED <<zones, bookings, events, notifications, sweep, now, nreq, mobile, reminding>>
    /\ Deliver

\* Notification.create([...], { session }): second write of the transaction
ReserveNotify(p) ==
    /\ proc[p].pc = "r_notify"
    /\ proc' = [proc EXCEPT ![p].pc = "r_commit", ![p].wrote = 2]
    /\ out' = NoOut
    /\ UNCHANGED <<zones, bookings, events, notifications, sent, sweep, now, nreq, observers, mobile, reminding>>

\* session.commitTransaction(): both inserts become visible at once
ReserveCommit(p) ==
    /\ proc[p].pc = "r_commit"
    /\ bookings' = Append(bookings, proc[p].doc)
    /\ notifications' = Create(notifications,
                               Notif(proc[p].uid, "Booking Confirmed", Len(bookings) + 1))
    /\ proc' = [proc EXCEPT ![p].pc = "r_broadcast", ![p].bid = Len(bookings) + 1,
                            ![p].wrote = 0, ![p].doc = NoDoc]
    /\ out' = NoOut
    /\ UNCHANGED <<zones, events, sent, sweep, now, nreq, observers, mobile, reminding>>

\* the two broadcasts after the commit, then the response
ReserveBroadcast(p) ==
    /\ proc[p].pc = "r_broadcast"
    /\ sent' = broadcast(broadcast(sent,
                  Ev("zone_update", proc[p].zoneId,
                     Max(0, proc[p].zdoc.totalSlots - (proc[p].cnt + 1)),
                     proc[p].bid, "reserve")),
                  Ev("booking_created", proc[p].zoneId, 0, proc[p].bid, "reserve"))
    /\ Respond(p, "ok")
    /\ UNCHANGED <<zones, bookings, events, notifications, sweep, now, nreq, mobile, reminding>>
    /\ Deliver

Reserve(p) ==
    \/ \E a \in Users, u \in Users, z \in ZoneIds, d \in Dates, h \in Durations :
          ReserveFindZone(p, a, u, z, d, h)
    \/ ReserveFindExisting(p)
    \/ ReserveCount(p)
    \/ \E qr \in generateQRCode(p) : ReserveSave(p, qr)
    \/ ReserveNotify(p)
    \/ ReserveCommit(p)
    \/ ReserveBroadcast(p)

\* ===== DELETE /api/bookings/:bookingId =====

\* Booking.findById, then the owner-or-admin and already-cancelled checks;
\* booking.status = 'cancelled' is set on the loaded document
CancelFind(p, auth, bid) ==
    /\ LET r == IF bid \notin DOMAIN bookings THEN "not_found"
                ELSE IF bookings[bid].userId # auth /\ userRole[auth] # "admin"
                THEN "unauthorized"
                ELSE IF bookings[bid].status = "cancelled" THEN "already_cancelled"
                ELSE "go"
           l == [Idle EXCEPT !.op = "cancel", !.pc = "c_save", !.bid = bid,
                             !.doc = [bookings[bid] EXCEPT !.status = "cancelled"]]
       IN Admit(p, "cancel", r, l)
    /\ UNCHANGED <<zones, bookings, events, notifications, sent, sweep, now, observers, mobile, reminding>>

\* booking.save(): writes the modified path, status
CancelSave(p) ==
    /\ proc[p].pc = "c_save"
    /\ bookings' = [bookings EXCEPT ![proc[p].bid].status = proc[p].doc.status]
    /\ proc' = [proc EXCEPT ![p].pc = "c_notify"]
    /\ out' = NoOut
    /\ UNCHANGED <<zones, events, notifications, sent, sweep, now, nreq, observers, mobile, reminding>>

\* Notification.create 'Booking Cancelled'
CancelNotify(p) ==
    /\ proc[p].pc = "c_notify"
    /\ notifications' = Create(notifications,
                               Notif(proc[p].doc.userId, "Booking Cancelled", proc[p].bid))
    /\ proc' = [proc EXCEPT ![p].pc = "c_broadcast"]
    /\ out' = NoOut
    /\ UNCHANGED <<zones, bookings, events, sent, sweep, now, nreq, observers, mobile, reminding>>

\* getZoneAvailability(zoneId), then zone_update and booking_cancelled; a
\* deleted zone makes zoneData null and zoneData.available throw
CancelBroadcast(p) ==
    /\ proc[p].pc = "c_broadcast"
    /\ LET a == getZoneAvailability(zones, bookings, proc[p].doc.zoneId, now) IN
         IF a < 0 THEN Respond(p, "server_error") /\ UNCHANGED sent
         ELSE /\ sent' = broadcast(broadcast(sent,
                            Ev("zone_update", proc[p].doc.zoneId, a, proc[p].bid, "cancel")),
                            Ev("booking_cancelled", proc[p].doc.zoneId, 0, proc[p].bid, "cancel"))
              /\ Respond(p, "ok")
    /\ UNCHANGED <<zones, bookings, events, notifications, sweep, now, nreq, mobile, reminding>>
    /\ Deliver

Cancel(p) ==
    \/ \E a \in Users, b \in 1..MaxBookings : CancelFind(p, a, b)
    \/ CancelSave(p)
    \/ CancelNotify(p)
    \/ CancelBroadcast(p)

\* Booking.findOne({ qrCode, status: 'active' }): the index keeps qrCode unique;
\* 0 when no document matches
FindActiveByQR(qr) ==
    IF \E i \in DOMAIN bookings : bookings[i].qrCode = qr /\ bookings[i].status = "active"
    THEN CHOOSE i \in DOMAIN bookings : bookings[i].qrCode = qr /\ bookings[i].status = "active"
    ELSE 0

\* ===== POST /api/bookings/checkin =====

\* the lookup and the 'Already checked in' check; checkInTime = new Date()
CheckInFind(p, auth, qr) ==
    /\ LET b == FindActiveByQR(qr)
           r == IF b = 0 THEN "not_found"
                ELSE IF bookings[b].checkInTime # Unset THEN "already_checked_in"
                ELSE "go"
           l == [Idle EXCEPT !.op = "checkin", !.pc = "ci_save", !.bid = b,
                             !.doc = [bookings[b] EXCEPT !.checkInTime = <<now>>]]
       IN Admit(p, "checkin", r, l)
    /\ UNCHANGED <<zones, bookings, events, notifications, sent, sweep, now, observers, mobile, reminding>>

\* booking.save(): writes the modified path, checkInTime
CheckInSave(p) ==
    /\ proc[p].pc = "ci_save"
    /\ bookings' = [bookings EXCEPT ![proc[p].bid].checkInTime = proc[p].doc.checkInTime]
    /\ proc' = [proc EXCEPT ![p].pc = "ci_notify"]
    /\ out' = NoOut
    /\ UNCHANGED <<zones, events, notifications, sent, sweep, now, nreq, observers, mobile, reminding>>

\* Notification.create 'Check-in Successful', the notification broadcast, 200
CheckInNotify(p) ==
    /\ proc[p].pc = "ci_notify"
    /\ notifications' = Create(notifications,
                               Notif(proc[p].doc.userId, "Check-in Successful", proc[p].bid))
    /\ sent' = broadcast(sent, Ev("notification", proc[p].doc.zoneId, 0, proc[p].bid, "checkin"))
    /\ Respond(p, "ok")
    /\ UNCHANGED <<zones, bookings, events, sweep, now, nreq, mobile, reminding>>
    /\ Deliver

CheckIn(p) ==
    \/ \E a \in Users, qr \in 1..MaxBookings : CheckInFind(p, a, qr)
    \/ CheckInSave(p)
    \/ CheckInNotify(p)

\* ===== POST /api/bookings/checkout =====

\* the lookup, 'Please check-in first', 'Already checked out'; then
\* checkOutTime = new Date() and status = 'completed' on the loaded document
CheckOutFind(p, auth, qr) ==
    /\ LET b == FindActiveByQR(qr)
           r == IF b = 0 THEN "not_found"
                ELSE IF bookings[b].checkInTime = Unset THEN "checkin_required"
                ELSE IF bookings[b].checkOutTime # Unset THEN "already_checked_out"
                ELSE "go"
           l == [Idle EXCEPT !.op = "checkout", !.pc = "co_save", !.bid = b,
                             !.doc = [bookings[b] EXCEPT !.checkOutTime = <<now>>,
                                                         !.status = "completed"]]
       IN Admit(p, "checkout", r, l)
    /\ UNCHANGED <<zones, bookings, events, notifications, sent, sweep, now, observers, mobile, reminding>>

\* booking.save(): writes the modified paths, checkOutTime and status
CheckOutSave(p) ==
    /\ proc[p].pc = "co_save"
    /\ bookings' = [bookings EXCEPT ![proc[p].bid].checkOutTime = proc[p].doc.checkOutTime,
                                    ![proc[p].bid].status = proc[p].doc.status]
    /\ proc' = [proc EXCEPT ![p].pc = "co_notify"]
    /\ out' = NoOut
    /\ UNCHANGED <<zones, events, notifications, sent, sweep, now, nreq, observers, mobile, reminding>>

\* Notification.create 'Check-out Successful'
CheckOutNotify(p) ==
    /\ proc[p].pc = "co_notify"
    /\ notifications' = Create(notifications,
                               Notif(proc[p].doc.userId, "Check-out Successful", proc[p].bid))
    /\ proc' = [proc EXCEPT ![p].pc = "co_broadcast"]
    /\ out' = NoOut
    /\ UNCHANGED <<zones, bookings, events, sent, sweep, now, nreq, observers, mobile, reminding>>

\* getZoneAvailability(zoneId), then zone_update and the notification event
CheckOutBroadcast(p) ==
    /\ proc[p].pc = "co_broadcast"
    /\ LET a == getZoneAvailability(zones, bookings, proc[p].doc.zoneId, now) IN
         IF a < 0 THEN Respond(p, "server_error") /\ UNCHANGED sent
         ELSE /\ sent' = broadcast(broadcast(sent,
                            Ev("zone_update", proc[p].doc.zoneId, a, proc[p].bid, "checkout")),
                            Ev("notification", proc[p].doc.zoneId, 0, proc[p].bid, "checkout"))
              /\ Respond(p, "ok")
    /\ UNCHANGED <<zones, bookings, events, notifications, sweep, now, nreq, mobile, reminding>>
    /\ Deliver

CheckOut(p) ==
    \/ \E a \in Users, qr \in 1..MaxBookings : CheckOutFind(p, a, qr)
    \/ CheckOutSave(p)
    \/ CheckOutNotify(p)
    \/ CheckOutBroadcast(p)

\* ===== PATCH /api/bookings/:bookingId/extend =====

\* Booking.findById, the owner check, 'Can only extend active bookings';
\* booking.duration += additionalHours on the loaded document
ExtendFind(p, auth, bid, hours) ==
    /\ LET r == IF bid \notin DOMAIN bookings THEN "not_found"
                ELSE IF bookings[bid].userId # auth THEN "unauthorized"
                ELSE IF bookings[bid].status # "active" THEN "not_active"
                ELSE "go"
           l == [Idle EXCEPT !.op = "extend", !.pc = "e_save", !.bid = bid,
                             !.doc = [bookings[bid] EXCEPT !.duration = @ + hours]]
       IN Admit(p, "extend", r, l)
    /\ UNCHANGED <<zones, bookings, events, notifications, sent, sweep, now, observers, mobile, reminding>>

\* booking.save(): writes the modified path, duration
ExtendSave(p) ==
    /\ proc[p].pc = "e_save"
    /\ bookings' = [bookings EXCEPT ![proc[p].bid].duration = proc[p].doc.duration]
    /\ proc' = [proc EXCEPT ![p].pc = "e_notify"]
    /\ out' = NoOut
    /\ UNCHANGED <<zones, events, notifications, sent, sweep, now, nreq, observers, mobile, reminding>>

\* Notification.create 'Booking Extended', the notification broadcast, 200
ExtendNotify(p) ==
    /\ proc[p].pc = "e_notify"
    /\ notifications' = Create(notifications,
                               Notif(proc[p].doc.userId, "Booking Extended", proc[p].bid))
    /\ sent' = broadcast(sent, Ev("notification", proc[p].doc.zoneId, 0, proc[p].bid, "extend"))
    /\ Respond(p, "ok")
    /\ UNCHANGED <<zones, bookings, events, sweep, now, nreq, mobile, reminding>>
    /\ Deliver

Extend(p) ==
    \/ \E a \in Users, b \in 1..MaxBookings, h \in AddHours : ExtendFind(p, a, b, h)
    \/ ExtendSave(p)
    \/ ExtendNotify(p)

\* ===== PATCH /api/zones/:zoneId =====

\* admin only; findByIdAndUpdate with runValidators (totalSlots min 1), then
\* getZoneAvailability and zone_update; bookings are left as they are
ZoneUpdate(auth, z, total) ==
    /\ nreq < MaxRequests
    /\ userRole[auth] = "admin"
    /\ zones[z].exists
    /\ total >= 1
    /\ total # zones[z].totalSlots
    /\ nreq' = nreq + 1
    /\ zones' = [zones EXCEPT ![z].totalSlots = total]
    /\ sent' = broadcast(sent, Ev("zone_update", z,
                                  getZoneAvailability(zones', bookings, z, now), 0, "zone_patch"))
    /\ out' = Out("zone_patch", "ok")
    /\ UNCHANGED <<bookings, events, notifications, proc, sweep, now, mobile, reminding>>
    /\ Deliver

\* ===== DELETE /api/zones/:zoneId =====

\* admin only; Booking.countDocuments({ zoneId, status: 'active' })
ZoneDeleteCount(p, auth, z) ==
    /\ userRole[auth] = "admin"
    /\ LET r == IF \E i \in DOMAIN bookings : bookings[i].zoneId = z
                                              /\ bookings[i].status = "active"
                THEN "zone_in_use" ELSE "go"
           l == [Idle EXCEPT !.op = "zone_delete", !.pc = "zd_delete", !.zoneId = z]
       IN Admit(p, "zone_delete", r, l)
    /\ UNCHANGED <<zones, bookings, events, notifications, sent, sweep, now, observers, mobile, reminding>>

\* Zone.findByIdAndDelete, then zone_deleted
ZoneDeleteRemove(p) ==
    /\ proc[p].pc = "zd_delete"
    /\ zones' = [zones EXCEPT ![proc[p].zoneId] = NoZone]
    /\ sent' = broadcast(sent, Ev("zone_deleted", proc[p].zoneId, 0, 0, "zone_delete"))
    /\ Respond(p, "ok")
    /\ UNCHANGED <<bookings, events, notifications, sweep, now, nreq, mobile, reminding>>
    /\ Deliver

ZoneDelete(p) ==
    \/ \E a \in Users, z \in ZoneIds : ZoneDeleteCount(p, a, z)
    \/ ZoneDeleteRemove(p)

\* ===== /api/events =====

\* Booking.countDocuments({ zoneId, status: 'active', date: { $gte: new Date() } }):
\* a booking's date is the midnight that starts its day
CountUpcoming(bs, z, t) ==
    Cardinality({i \in DOMAIN bs : bs[i].zoneId = z /\ bs[i].status = "active"
                                   /\ bs[i].date * HoursPerDay >= t})

\* Event.aggregate with date: { $gte: new Date() }
UpcomingEventSlots(es, z, t) ==
    SumAlloc({e \in es : e.zoneId = z /\ e.date * HoursPerDay >= t})

FreeEventId == CHOOSE i \in 1..MaxEvents : \A e \in events : e.id # i

\* POST /api/events: admin only, allocatedSlots > 0, the zone exists, and
\* max(0, totalSlots - upcoming active bookings) >= allocatedSlots; the event is
\* inserted in a transaction, then zone_update
EventCreate(auth, z, d, alloc) ==
    /\ nreq < MaxRequests
    /\ Cardinality(events) < MaxEvents
    /\ userRole[auth] = "admin"
    /\ alloc > 0
    /\ zones[z].exists
    /\ Max(0, zones[z].totalSlots - CountUpcoming(bookings, z, now)) >= alloc
    /\ nreq' = nreq + 1
    /\ events' = events \cup {[id |-> FreeEventId, zoneId |-> z, date |-> d,
                               allocatedSlots |-> alloc]}
    /\ sent' = broadcast(sent, Ev("zone_update", z,
                  Max(0, zones[z].totalSlots - CountUpcoming(bookings, z, now)
                           - UpcomingEventSlots(events', z, now)), 0, "event_create"))
    /\ out' = Out("event_create", "ok")
    /\ UNCHANGED <<zones, bookings, notifications, proc, sweep, now, mobile, reminding>>
    /\ Deliver

\* PATCH /api/events/:eventId: admin only; findByIdAndUpdate(req.body) with
\* runValidators (allocatedSlots min 1), no capacity check, no broadcast
EventUpdate(auth, e, alloc) ==
    /\ nreq < MaxRequests
    /\ userRole[auth] = "admin"
    /\ e \in events
    /\ alloc >= 1
    /\ alloc # e.allocatedSlots
    /\ nreq' = nreq + 1
    /\ events' = (events \ {e}) \cup {[e EXCEPT !.allocatedSlots = alloc]}
    /\ out' = Out("event_update", "ok")
    /\ UNCHANGED <<zones, bookings, notifications, sent, proc, sweep, now, observers, mobile, reminding>>

\* DELETE /api/events/:eventId: admin only; findByIdAndDelete, then zone_update
\* when the zone still exists
EventDelete(auth, e) ==
    /\ nreq < MaxRequests
    /\ userRole[auth] = "admin"
    /\ e \in events
    /\ nreq' = nreq + 1
    /\ events' = events \ {e}
    /\ sent' = IF zones[e.zoneId].exists
               THEN broadcast(sent, Ev("zone_update", e.zoneId,
                       Max(0, zones[e.zoneId].totalSlots
                                - CountUpcoming(bookings, e.zoneId, now)
                                - UpcomingEventSlots(events', e.zoneId, now)),
                       0, "event_delete"))
               ELSE sent
    /\ out' = Out("event_delete", "ok")
    /\ UNCHANGED <<zones, bookings, notifications, proc, sweep, now, mobile, reminding>>
    /\ Deliver

\* ===== expireOldBookings (cron '0 * * * *' and once at start-up) =====

\* the bookings a run finds, in insertion order, each with the document read
RECURSIVE Overdue(_, _)
Overdue(i, t) ==
    IF i > Len(bookings) THEN <<>>
    ELSE (IF bookings[i].status \in {"active", "checked-in"} /\ bookings[i].endTime < t
          THEN <<[id |-> i, doc |-> bookings[i]]>> ELSE <<>>) \o Overdue(i + 1, t)

\* Booking.find({ status in [active, checked-in], endTime < now }); a run that
\* finds nothing changes nothing
SweepFind(r) ==
    /\ sweep[r].pc = "idle"
    /\ Overdue(1, now) # <<>>
    /\ sweep' = [sweep EXCEPT ![r] = [pc |-> "s_save", at |-> now, queue |-> Overdue(1, now)]]
    /\ out' = NoOut
    /\ UNCHANGED <<zones, bookings, events, notifications, sent, proc, now, nreq, observers, mobile, reminding>>

\* the violation a run records, decided on the document as it was read
Violation(doc) ==
    IF doc.checkInTime # Unset /\ doc.checkOutTime = Unset THEN <<"no-checkout">>
    ELSE IF doc.checkInTime = Unset THEN <<"unauthorized">>
    ELSE <<>>

\* booking.save(): sets status and pushes the violation onto the stored array
SweepSave(r) ==
    /\ sweep[r].pc = "s_save"
    /\ LET h == Head(sweep[r].queue) IN
         bookings' = [bookings EXCEPT ![h.id].status = "expired",
                                      ![h.id].violations = @ \o Violation(h.doc)]
    /\ sweep' = [sweep EXCEPT ![r].pc = "s_notify"]
    /\ out' = NoOut
    /\ UNCHANGED <<zones, events, notifications, sent, proc, now, nreq, observers, mobile, reminding>>

\* Notification.create 'Booking Expired'
SweepNotify(r) ==
    /\ sweep[r].pc = "s_notify"
    /\ LET h == Head(sweep[r].queue) IN
         notifications' = Create(notifications, Notif(h.doc.userId, "Booking Expired", h.id))
    /\ sweep' = [sweep EXCEPT ![r].pc = "s_broadcast"]
    /\ out' = NoOut
    /\ UNCHANGED <<zones, bookings, events, sent, proc, now, nreq, observers, mobile, reminding>>

\* getZoneAvailability, zone_update when the zone exists, then the next booking
SweepBroadcast(r) ==
    /\ sweep[r].pc = "s_broadcast"
    /\ LET h == Head(sweep[r].queue)
           a == getZoneAvailability(zones, bookings, h.doc.zoneId, now) IN
         sent' = IF a < 0 THEN sent
                 ELSE broadcast(sent, Ev("zone_update", h.doc.zoneId, a, h.id, "expire"))
    /\ sweep' = [sweep EXCEPT ![r] = IF Len(sweep[r].queue) = 1 THEN IdleRun
                                     ELSE [@ EXCEPT !.pc = "s_save", !.queue = Tail(@)]]
    /\ out' = NoOut
    /\ UNCHANGED <<zones, bookings, events, notifications, proc, now, nreq, mobile, reminding>>
    /\ Deliver

\* a rejected database call that is not caught: the run never returns and no
\* later run starts in its place
SweepThrowFatal(r) ==
    /\ sweep[r].pc \in {"s_save", "s_notify", "s_broadcast"}
    /\ sweep' = [sweep EXCEPT ![r].pc = "dead"]
    /\ out' = NoOut
    /\ UNCHANGED <<zones, bookings, events, notifications, sent, proc, now, nreq, observers, mobile, reminding>>

\* a database call of the run rejects: the catch around the whole run logs it
\* and the run ends
SweepThrow(r) ==
    /\ sweep[r].pc \in {"s_save", "s_notify", "s_broadcast"}
    /\ sweep' = [sweep EXCEPT ![r] = IdleRun]
    /\ out' = NoOut
    /\ UNCHANGED <<zones, bookings, events, notifications, sent, proc, now, nreq, observers, mobile, reminding>>

expireOldBookings(r) ==
    SweepFind(r) \/ SweepSave(r) \/ SweepNotify(r) \/ SweepBroadcast(r) \/ SweepThrow(r)

\* time passes
Tick ==
    /\ now + TickStep <= MaxNow
    /\ now' = now + TickStep
    /\ out' = NoOut
    /\ UNCHANGED <<zones, bookings, events, notifications, sent, proc, sweep, nreq, observers, mobile, reminding>>

\* a database call of a handler rejects: catch (abortTransaction for the
\* reserve, whose uncommitted inserts are dropped), 500
Throw(p) ==
    /\ proc[p].pc \in {"r_existing", "r_count", "r_save", "r_notify", "r_commit",
                       "c_save", "c_notify", "c_broadcast",
                       "ci_save", "ci_notify",
                       "co_save", "co_notify", "co_broadcast",
                       "e_save", "e_notify", "zd_delete"}
    /\ Respond(p, "server_error")
    /\ UNCHANGED <<zones, bookings, events, notifications, sent, sweep, now, nreq, observers, mobile, reminding>>

Zone ==
    \E a \in Users, z \in ZoneIds, t \in 1..MaxSlots : ZoneUpdate(a, z, t)

Event ==
    \/ \E a \in Users, z \in ZoneIds, d \in Dates, n \in 1..MaxSlots : EventCreate(a, z, d, n)
    \/ \E a \in Users, e \in events, n \in 1..MaxSlots : EventUpdate(a, e, n)
    \/ \E a \in Users, e \in events : EventDelete(a, e)

\* the reservation ledger: every booking handler, the zone registry, the sweep
Next ==
    \/ \E p \in Procs : Reserve(p) \/ Cancel(p) \/ CheckIn(p) \/ CheckOut(p) \/ Extend(p)
                           \/ ZoneDelete(p) \/ Throw(p)
    \/ Zone
    \/ expireOldBookings("r1")
    \/ Tick

Spec == Init /\ [][Next]_vars

\* the capacity bookkeeping: reserve and cancel against event allocations and
\* zone updates
NextCapacity ==
    \/ \E p \in Procs : Reserve(p) \/ Cancel(p) \/ Throw(p)
    \/ Zone
    \/ Event
    \/ Tick

SpecCapacity == Init /\ [][NextCapacity]_vars

\* the N concurrent reserves of distinct permitted users on one zone and date,
\* against an empty ledger, with no database failure and fresh tokens
InitRace == Init /\ bookings = <<>>

Requested == {proc[q].uid : q \in {r \in Procs : proc[r].op = "reserve"}}
               \cup {bookings[i].userId : i \in DOMAIN bookings}

RaceDates == {proc[q].date : q \in {r \in Procs : proc[r].op = "reserve"}}
               \cup {bookings[i].date : i \in DOMAIN bookings}

NextRace ==
    \E p \in Procs :
       \/ \E u \in Users \ Requested, z \in ZoneIds, d \in Dates, h \in Durations :
             /\ zones[z].type \in accessRules(userRole[u])
             /\ RaceDates \subseteq {d}
             /\ ReserveFindZone(p, u, u, z, d, h)
       \/ ReserveFindExisting(p)
       \/ ReserveCount(p)
       \/ \E qr \in generateQRCode(p) \ TakenCodes(p) : ReserveSave(p, qr)
       \/ ReserveNotify(p)
       \/ ReserveCommit(p)
       \/ ReserveBroadcast(p)

SpecRace == InitRace /\ [][NextRace]_vars

\* ===== bookingController (routes/bookings.js: PUT /:id/cancel, /:id/check-in,
\* /:id/check-out), written against the same Booking model =====

\* ParkingZone.findById, the availableSlots check, then Booking.create with
\* user, zone and bookingDate, none of them a path of bookingSchema: the
\* required userId, zoneId, zoneName, qrCode and date are missing, validation
\* rejects the document and nothing is written: 500
createBooking(p, auth, z) ==
    /\ Admit(p, "k_create", IF ~zones[z].exists THEN "not_found"
                            ELSE IF zones[z].availableSlots <= 0 THEN "no_slots"
                            ELSE "server_error",
             Idle)
    /\ UNCHANGED <<zones, bookings, events, notifications, sent, sweep, now, observers, mobile, reminding>>

\* Booking.findById; booking.user is no path of bookingSchema, so
\* booking.user.toString() throws before anything is written: 500
cancelBooking(p, auth, bid) ==
    /\ Admit(p, "k_cancel", IF bid \notin DOMAIN bookings THEN "not_found" ELSE "server_error",
             Idle)
    /\ UNCHANGED <<zones, bookings, events, notifications, sent, sweep, now, observers, mobile, reminding>>

\* Booking.findById; status = 'checked-in' and checkInTime = new Date() on the
\* loaded document, whatever its status and whoever asks
checkInFind(p, auth, bid) ==
    /\ LET r == IF bid \notin DOMAIN bookings THEN "not_found" ELSE "go"
           l == [Idle EXCEPT !.op = "k_checkin", !.pc = "k_ci_save", !.bid = bid,
                             !.doc = [bookings[bid] EXCEPT !.status = "checked-in",
                                                           !.checkInTime = <<now>>]]
       IN Admit(p, "k_checkin", r, l)
    /\ UNCHANGED <<zones, bookings, events, notifications, sent, sweep, now, observers, mobile, reminding>>

\* booking.save(), then 200
checkInSave(p) ==
    /\ proc[p].pc = "k_ci_save"
    /\ bookings' = [bookings EXCEPT ![proc[p].bid].status = proc[p].doc.status,
                                    ![proc[p].bid].checkInTime = proc[p].doc.checkInTime]
    /\ Respond(p, "ok")
    /\ UNCHANGED <<zones, events, notifications, sent, sweep, now, nreq, observers, mobile, reminding>>

checkIn(p) ==
    \/ \E a \in Users, b \in 1..MaxBookings : checkInFind(p, a, b)
    \/ checkInSave(p)

\* Booking.findById; status = 'completed' and checkOutTime = new Date() on the
\* loaded document, whatever its status and whether or not it was checked in
checkOutFind(p, auth, bid) ==
    /\ LET r == IF bid \notin DOMAIN bookings THEN "not_found" ELSE "go"
           l == [Idle EXCEPT !.op = "k_checkout", !.pc = "k_co_save", !.bid = bid,
                             !.doc = [bookings[bid] EXCEPT !.status = "completed",
                                                           !.checkOutTime = <<now>>]]
       IN Admit(p, "k_checkout", r, l)
    /\ UNCHANGED <<zones, bookings, events, notifications, sent, sweep, now, observers, mobile, reminding>>

\* booking.save()
checkOutSave(p) ==
    /\ proc[p].pc = "k_co_save"
    /\ bookings' = [bookings EXCEPT ![proc[p].bid].status = proc[p].doc.status,
                                    ![proc[p].bid].checkOutTime = proc[p].doc.checkOutTime]
    /\ proc' = [proc EXCEPT ![p].pc = "k_co_zone"]
    /\ out' = NoOut
    /\ UNCHANGED <<zones, events, notifications, sent, sweep, now, nreq, observers, mobile, reminding>>

\* ParkingZone.findById(booking.zone): booking.zone is no path of bookingSchema,
\* findById(undefined) finds nothing and zone.availableSlots throws: 500, the
\* saved booking stays
checkOutZone(p) ==
    /\ proc[p].pc = "k_co_zone"
    /\ Respond(p, "server_error")
    /\ UNCHANGED <<zones, bookings, events, notifications, sent, sweep, now, nreq, observers, mobile, reminding>>

checkOut(p) ==
    \/ \E a \in Users, b \in 1..MaxBookings : checkOutFind(p, a, b)
    \/ checkOutSave(p)
    \/ checkOutZone(p)

\* booking.save() of a controller handler rejects: catch, 500
ThrowController(p) ==
    /\ proc[p].pc \in {"k_ci_save", "k_co_save"}
    /\ Respond(p, "server_error")
    /\ UNCHANGED <<zones, bookings, events, notifications, sent, sweep, now, nreq, observers, mobile, reminding>>

\* the zone document with its stored counter, as POST /api/zones leaves it
\* (availableSlots = totalSlots, no booking yet) or as PATCH /api/zones/:zoneId
\* recomputes it when totalSlots changes (totalSlots minus today's active
\* bookings)
InitController ==
    /\ zones \in [ZoneIds -> [exists : {TRUE}, totalSlots : 1..MaxSlots, type : ZoneTypes,
                              availableSlots : 0..MaxSlots]]
    /\ events = {}
    /\ \/ /\ bookings = <<>>
          /\ notifications = EmptyBag
          /\ sent = EmptyBag
       \/ /\ bookings = <<NewBooking("u2", "z1", 0, 1, 1)>>
          /\ notifications = SetToBag({Notif("u2", "Booking Confirmed", 1)})
          /\ sent = SetToBag({Ev("zone_update", "z1", zones["z1"].totalSlots - 1, 1, "reserve"),
                              Ev("booking_created", "z1", 0, 1, "reserve")})
    /\ \A z \in ZoneIds :
          zones[z].availableSlots = zones[z].totalSlots - CountActive(bookings, z, 0)
    /\ proc = [p \in Procs |-> Idle]
    /\ sweep = [r \in Runs |-> IdleRun]
    /\ now = 0
    /\ nreq = 0
    /\ out = NoOut
    /\ Quiet

NextController ==
    \/ \E p \in Procs :
          \/ \E a \in Users, z \in ZoneIds : createBooking(p, a, z)
          \/ \E a \in Users, b \in 1..MaxBookings : cancelBooking(p, a, b)
          \/ checkIn(p)
          \/ checkOut(p)
          \/ ThrowController(p)
    \/ Tick

SpecController == InitController /\ [][NextController]_vars

\* the role-based access rule of the reserve: every role against every zone type,
\* on an empty ledger
InitAccess ==
    /\ zones \in [ZoneIds -> [exists : {TRUE}, totalSlots : 1..MaxSlots, type : AllZoneTypes]]
    /\ events = {}
    /\ bookings = <<>>
    /\ notifications = EmptyBag
    /\ sent = EmptyBag
    /\ proc = [p \in Procs |-> Idle]
    /\ sweep = [r \in Runs |-> IdleRun]
    /\ now = 0
    /\ nreq = 0
    /\ out = NoOut
    /\ Quiet

NextAccess ==
    \E p \in Procs :
       \/ \E a \in AllUsers, z \in ZoneIds, d \in Dates, h \in Durations :
             ReserveFindZone(p, a, a, z, d, h)
       \/ ReserveFindExisting(p)
       \/ ReserveCount(p)
       \/ \E qr \in generateQRCode(p) : ReserveSave(p, qr)
       \/ ReserveNotify(p)
       \/ ReserveCommit(p)
       \/ ReserveBroadcast(p)
       \/ Throw(p)

SpecAccess == InitAccess /\ [][NextAccess]_vars

\* the runs of the expiry sweep alone: the store holds what two completed
\* reserves for day 0 leave behind (staff user u2, admin u3) on a zone of
\* MaxSlots slots, and two runs can be in progress together
InitSweeps ==
    /\ zones = [z \in ZoneIds |-> [exists |-> TRUE, totalSlots |-> MaxSlots, type |-> "staff"]]
    /\ events = {}
    /\ bookings = <<NewBooking("u2", "z1", 0, 1, 1), NewBooking("u3", "z1", 0, 1, 2)>>
    /\ sent = SetToBag({Ev("zone_update", "z1", MaxSlots - 1, 1, "reserve"),
                        Ev("booking_created", "z1", 0, 1, "reserve"),
                        Ev("zone_update", "z1", MaxSlots - 2, 2, "reserve"),
                        Ev("booking_created", "z1", 0, 2, "reserve")})
    /\ notifications = SetToBag({Notif("u2", "Booking Confirmed", 1),
                                 Notif("u3", "Booking Confirmed", 2)})
    /\ proc = [p \in Procs |-> Idle]
    /\ sweep = [r \in Runs |-> IdleRun]
    /\ now = 0
    /\ nreq = 0
    /\ out = NoOut
    /\ Quiet

NextSweeps ==
    \/ \E r \in Runs : expireOldBookings(r)
    \/ Tick

SpecSweeps == InitSweeps /\ [][NextSweeps]_vars

\* the cron schedule starts a run every hour for ever, and a database call
\* that keeps being attempted does not fail every time
SpecSweepsFair ==
    /\ SpecSweeps
    /\ \A r \in Runs : /\ WF_vars(SweepFind(r))
                       /\ SF_vars(SweepSave(r))
                       /\ SF_vars(SweepNotify(r))
                       /\ SF_vars(SweepBroadcast(r))

\* the observers of the WebSocket server while bookings are reserved on an empty
\* store
InitObservers == Init /\ zones["z1"].totalSlots = MaxSlots /\ bookings = <<>>

NextObservers ==
    \/ \E c \in Conns : Connect(c) \/ Drop(c) \/ OnClose(c) \/ OnError(c)
    \/ \E c \in Conns : GoSilent(c) \/ Pong(c)
    \/ Heartbeat
    \/ Cleanup
    \/ Reserve("p1")

SpecObservers == InitObservers /\ [][NextObservers]_vars

\* the reminder job at its schedule: the store holds what two completed
\* reserves for day 1 leave behind, both by staff user u2 on two zones or by u2
\* and admin u3 on one zone
InitReminders ==
    /\ zones = [z \in {"z1", "z2"} |-> [exists |-> TRUE, totalSlots |-> MaxSlots, type |-> "staff"]]
    /\ events = {}
    /\ \E w \in {<<"u2", "z2">>, <<"u3", "z1">>} :
          /\ bookings = <<NewBooking("u2", "z1", 1, 1, 1), NewBooking(w[1], w[2], 1, 1, 2)>>
          /\ notifications = SetToBag({Notif("u2", "Booking Confirmed", 1)})
                                (+) SetToBag({Notif(w[1], "Booking Confirmed", 2)})
          /\ sent = SetToBag({Ev("zone_update", "z1", MaxSlots - 1, 1, "reserve"),
                              Ev("booking_created", "z1", 0, 1, "reserve"),
                              Ev("zone_update", w[2],
                                 MaxSlots - (IF w[2] = "z1" THEN 2 ELSE 1), 2, "reserve"),
                              Ev("booking_created", w[2], 0, 2, "reserve")})
    /\ proc = [p \in Procs |-> Idle]
    /\ sweep = [r \in Runs |-> IdleRun]
    /\ now = 0
    /\ nreq = 0
    /\ out = NoOut
    /\ Quiet

NextReminders ==
    \/ sendBookingReminders
    \/ Tick10

SpecReminders == InitReminders /\ [][NextReminders]_vars

\* the mobile client alone
NextMobile ==
    \/ Login
    \/ Logout
    \/ \E k \in Socks : SockOpen(k) \/ SockClose(k)
    \/ TimerFire

SpecMobile == Init /\ [][NextMobile]_vars

Terminal == {"completed", "cancelled", "expired"}

\* ---------------------------------------------------------------------------
\* C1: N reserves by distinct permitted users for one zone and date, zone with
\* totalSlots = k < N and no prior bookings: once all are answered exactly k
\* have succeeded (k bookings are in the ledger) and every other answer is
\* 'No slots available'.
CexC1 ==
    /\ out.op = "reserve" => out.resp \in {"ok", "no_slots"}
    /\ (nreq = MaxRequests /\ (\A p \in Procs : Free(p))
          /\ zones["z1"].totalSlots < MaxRequests)
         => Len(bookings) = zones["z1"].totalSlots

\* C2: in every state, for every zone Z and date D, the number of active
\* bookings on (Z, D) is at most Z.totalSlots.
CexC2 ==
    \A z \in ZoneIds, d \in Dates :
       zones[z].exists => CountActive(bookings, z, d) <= zones[z].totalSlots

\* C3: in every state, for every zone Z and date D, the active bookings on
\* (Z, D) plus the allocatedSlots of the events on Z for D are at most
\* Z.totalSlots.
CexC3 ==
    \A z \in ZoneIds, d \in Dates :
       zones[z].exists =>
          CountActive(bookings, z, d)
            + SumAlloc({e \in events : e.zoneId = z /\ e.date = d}) <= zones[z].totalSlots

\* C4: a booking is in the store exactly when its 'Booking Confirmed'
\* notification is: every stored booking has one, and every such notification
\* belongs to a stored booking of that user.
ThmC4 ==
    /\ \A i \in DOMAIN bookings :
          CopiesIn(Notif(bookings[i].userId, "Booking Confirmed", i), notifications) = 1
    /\ \A n \in BagToSet(notifications) :
          n.title = "Booking Confirmed" =>
             n.bid \in DOMAIN bookings /\ bookings[n.bid].userId = n.userId

\* one transaction holds both inserts uncommitted while another has just committed
WitC4 ==
    \E p \in Procs, q \in Procs : proc[p].wrote = 2 /\ proc[q].pc = "r_broadcast"

\* C5: every zone_update / booking_created event of a reserve belongs to a
\* booking whose transaction has committed, and is sent once.
ThmC5 ==
    \A e \in BagToSet(sent) :
       e.op = "reserve" => e.bid \in DOMAIN bookings /\ CopiesIn(e, sent) = 1

\* a reserve has been answered 200 after broadcasting for the booking it committed
WitC5 ==
    /\ out = Out("reserve", "ok")
    /\ Len(bookings) > 1
    /\ \E e \in BagToSet(sent) : e.type = "booking_created" /\ e.bid = Len(bookings)

\* C6: once a booking is completed, cancelled or expired, no step changes its
\* status.
CexC6 ==
    [][\A i \in DOMAIN bookings :
          bookings[i].status \in Terminal => bookings'[i].status = bookings[i].status]_vars

\* C7: a cancel request that finds its booking cancelled, expired or completed
\* is answered with a failure at once: it is never admitted to the save, the
\* notification and the broadcasts.
CexC7 ==
    [][\A p \in Procs :
          (Free(p) /\ proc'[p].op = "cancel")
             => bookings[proc'[p].bid].status \notin Terminal]_vars

\* C8: cancel requests racing on one booking (the sweep not involved): one
\* 'Booking Cancelled' notification and one booking_cancelled event at most.
CexC8 ==
    \A i \in DOMAIN bookings :
       bookings[i].violations = <<>> =>
          /\ CopiesIn(Notif(bookings[i].userId, "Booking Cancelled", i), notifications) <= 1
          /\ CopiesIn(Ev("booking_cancelled", bookings[i].zoneId, 0, i, "cancel"), sent) <= 1

\* C9: the commit of a reserve for today on zone Z lowers the availability the
\* zone list reports for Z by exactly 1, and the save of a cancel of an active
\* booking for today raises it back by at most 1.
CexC9 ==
    [][\A z \in ZoneIds :
          (/\ Len(bookings') = Len(bookings) + 1
           /\ bookings'[Len(bookings')].zoneId = z
           /\ bookings'[Len(bookings')].date = DayOf(now))
             => ZoneListAvailable(zones', bookings', events', z, now)
                  = ZoneListAvailable(zones, bookings, events, z, now) - 1]_vars

\* C10: check-in is admitted only on an active booking, and its save leaves
\* the booking with checkInTime set and status checked-in.
CexC10 ==
    [][\A p \in Procs :
          /\ (Free(p) /\ proc'[p].op = "checkin")
                => bookings[proc'[p].bid].status = "active"
          /\ (proc[p].pc = "ci_save" /\ proc'[p].pc = "ci_notify")
                => /\ bookings'[proc[p].bid].checkInTime # Unset
                   /\ bookings'[proc[p].bid].status = "checked-in"]_vars

\* C11: a booking with status completed has both checkInTime and checkOutTime
\* set, its check-in not later than its check-out (a check-out of a booking
\* never checked in having failed and changed nothing).
CexC11 ==
    \A i \in DOMAIN bookings :
       bookings[i].status = "completed" =>
          /\ bookings[i].checkInTime # Unset
          /\ bookings[i].checkOutTime # Unset
          /\ bookings[i].checkInTime[1] <= bookings[i].checkOutTime[1]

\* the table of C12: role, permitted zone type
PermittedC12 ==
    {<<"student", "student">>, <<"student", "general">>,
     <<"staff", "staff">>, <<"staff", "student">>, <<"staff", "general">>,
     <<"visitor", "visitor">>, <<"visitor", "general">>,
     <<"guest", "general">>}
      \cup {<<"admin", t>> : t \in AllZoneTypes}

\* C12: the access rule permits exactly the pairs of the table; a reserve gets
\* past it, and a booking is created, only for a permitted pair; a reserve
\* answered access denied leaves bookings and notifications as they were.
ThmC12 ==
    [][/\ \A u \in AllUsers, t \in AllZoneTypes :
             t \in accessRules(userRole[u]) <=> <<userRole[u], t>> \in PermittedC12
       /\ \A p \in Procs :
             (Free(p) /\ proc'[p].op = "reserve")
                => <<userRole[proc'[p].uid], zones[proc'[p].zoneId].type>> \in PermittedC12
       /\ Len(bookings') > Len(bookings)
             => <<userRole[bookings'[Len(bookings')].userId],
                  zones[bookings'[Len(bookings')].zoneId].type>> \in PermittedC12
       /\ out' = Out("reserve", "access_denied")
             => bookings' = bookings /\ notifications' = notifications]_vars

\* a reserve was just denied on a staff zone on which the staff user holds a booking
WitC12 ==
    /\ out = Out("reserve", "access_denied")
    /\ zones["z1"].type = "staff"
    /\ \E i \in DOMAIN bookings : bookings[i].userId = "u2" /\ bookings[i].zoneId = "z1"

\* C13: no user holds two bookings with status active for the same zone and
\* the same date.
CexC13 ==
    \A i \in DOMAIN bookings, j \in DOMAIN bookings :
       (/\ i # j
        /\ bookings[i].userId = bookings[j].userId
        /\ bookings[i].zoneId = bookings[j].zoneId
        /\ bookings[i].date = bookings[j].date
        /\ bookings[i].status = "active")
          => bookings[j].status # "active"

\* C14: no cancel, extend, check-in or check-out request of a caller who is
\* neither the owner of the booking nor an admin gets past the checks of its
\* handler (to the save that changes the booking).
CexC14 ==
    [][\A p \in Procs, a \in Users :
          userRole[a] # "admin" =>
             /\ \A b \in 1..MaxBookings :
                   (CancelFind(p, a, b) /\ proc'[p].pc = "c_save") => bookings[b].userId = a
             /\ \A b \in 1..MaxBookings, h \in AddHours :
                   (ExtendFind(p, a, b, h) /\ proc'[p].pc = "e_save") => bookings[b].userId = a
             /\ \A qr \in 1..MaxBookings :
                   (CheckInFind(p, a, qr) /\ proc'[p].pc = "ci_save")
                      => bookings[proc'[p].bid].userId = a
             /\ \A qr \in 1..MaxBookings :
                   (CheckOutFind(p, a, qr) /\ proc'[p].pc = "co_save")
                      => bookings[proc'[p].bid].userId = a]_vars

\* C15: every booking with status active or checked-in references an existing
\* zone.
CexC15 ==
    \A i \in DOMAIN bookings :
       bookings[i].status \in {"active", "checked-in"} => zones[bookings[i].zoneId].exists

\* C16: for every existing zone the zone list, the availability endpoint (asked
\* for today) and getZoneAvailability all yield max(0, totalSlots - today's
\* bookings with status active or checked-in - the allocatedSlots of the zone's
\* events dated today or later).
CexC16 ==
    \A z \in ZoneIds :
       zones[z].exists =>
          LET a == Max(0, zones[z].totalSlots
                          - Cardinality({i \in DOMAIN bookings :
                                /\ bookings[i].zoneId = z
                                /\ bookings[i].status \in {"active", "checked-in"}
                                /\ bookings[i].date = DayOf(now)})
                          - SumAlloc({e \in events : e.zoneId = z /\ e.date >= DayOf(now)}))
          IN /\ ZoneListAvailable(zones, bookings, events, z, now) = a
             /\ AvailabilityEndpoint(zones, bookings, z, DayOf(now)) = a
             /\ getZoneAvailability(zones, bookings, z, now) = a

\* C17: a reserve, cancel, check-in, check-out or extend that answers with a
\* failure has written nothing visible: the failure is answered before the
\* handler's save (for the reserve, before its commit).
CexC17 ==
    [][\A p \in Procs :
          (/\ proc[p].op \in {"reserve", "cancel", "checkin", "checkout", "extend"}
           /\ proc'[p].pc = "idle"
           /\ out'.op = proc[p].op
           /\ out'.resp # "ok")
             => proc[p].pc \in {"r_existing", "r_count", "r_save", "r_notify", "r_commit",
                                "c_save", "ci_save", "co_save", "e_save"}]_vars

\* C18: a reserve whose insert conflicts with the uncommitted insert of another
\* reserve (the same qrCode, held by a transaction still open) is not
\* answered with a failure while the zone still has a free slot for its date.
CexC18 ==
    [][\A p \in Procs :
          \A qr \in {proc[q].doc.qrCode : q \in {r \in Procs \ {p} : proc[r].op = "reserve"
                                                                    /\ proc[r].wrote > 0}} :
             (/\ ReserveSave(p, qr)
              /\ CountActive(bookings, proc[p].zoneId, proc[p].date)
                   + Cardinality({r \in Procs \ {p} : /\ proc[r].op = "reserve"
                                                       /\ proc[r].wrote > 0
                                                       /\ proc[r].zoneId = proc[p].zoneId
                                                       /\ proc[r].date = proc[p].date})
                   < zones[proc[p].zoneId].totalSlots)
                => out'.resp # "server_error"]_vars

\* C19: no two stored bookings have the same qrCode, and an insert whose token
\* is already taken ends its request there, with bookings and notifications
\* as they were.
ThmC19 ==
    [][/\ \A i \in DOMAIN bookings', j \in DOMAIN bookings' :
             i # j => bookings'[i].qrCode # bookings'[j].qrCode
       /\ \A p \in Procs :
             \A qr \in TakenCodes(p) :
                ReserveSave(p, qr)
                   => /\ proc'[p] = Idle
                      /\ bookings' = bookings
                      /\ notifications' = notifications]_vars

\* a reserve was just answered 500 while another transaction holds an
\* uncommitted insert and its token
WitC19 ==
    /\ out = Out("reserve", "server_error")
    /\ \E q \in Procs : proc[q].op = "reserve" /\ proc[q].wrote > 0

\* C20: when a sweep run is done with a booking it found (it moves on to the
\* next one or ends), that booking has status expired and has gained exactly
\* one violation: no-checkout if it was read checked in and not checked out,
\* unauthorized if it was read never checked in; and the steps of the run
\* change no other booking and no booking found with another status or an
\* endTime not before the start of the run.
CexC20 ==
    [][\A r \in Runs :
          /\ (sweep[r].pc = "s_broadcast" /\ sweep'[r].pc \in {"idle", "s_save"})
                => LET h == Head(sweep[r].queue) IN
                     /\ h.doc.status \in {"active", "checked-in"}
                     /\ h.doc.endTime < sweep[r].at
                     /\ bookings'[h.id].status = "expired"
                     /\ bookings'[h.id].violations
                          = h.doc.violations
                              \o <<IF h.doc.checkInTime # Unset THEN "no-checkout"
                                   ELSE "unauthorized">>
          /\ (sweep[r].pc # "idle" /\ sweep'[r] # sweep[r] /\ sweep'[r].pc # "idle")
                => \A i \in DOMAIN bookings :
                      i # Head(sweep[r].queue).id \/ sweep[r].pc # "s_save"
                         => bookings'[i] = bookings[i]]_vars

\* a booking that is active or checked-in after its endTime
StillActiveC21(i) ==
    /\ i \in DOMAIN bookings
    /\ bookings[i].status \in {"active", "checked-in"}
    /\ bookings[i].endTime < now

ThmC22 ==
    [][\A p \in Procs :
         (proc[p].pc = "r_broadcast" /\ proc'[p] # proc[p]) =>
            LET D == sent' (-) sent
                open == OpenClients([clients |-> clients, conns |-> conns]) IN
              /\ BagCardinality(D) = 2
              /\ \A c \in clients' :
                    c \in open /\ conns'[c].inbox = conns[c].inbox (+) D
              /\ \A c \in open \ clients' :
                    (conns'[c].inbox (-) conns[c].inbox) \sqsubseteq D
              /\ \A c \in Conns \ open : conns'[c].inbox = conns[c].inbox
              /\ out' = Out("reserve", "ok")
              /\ UNCHANGED <<zones, bookings, events, notifications>>]_vars

\* the answer to a reserve whose zone_update reached both observers and whose
\* booking_created reached only one, the other send having thrown
WitC22 ==
    /\ out = Out("reserve", "ok")
    /\ \E c, d \in Conns :
          /\ c \in clients
          /\ d \notin clients
          /\ conns[d].readyState = "OPEN"
          /\ BagCardinality(conns[c].inbox) = 2
          /\ BagCardinality(conns[d].inbox) = 1
          /\ conns[d].inbox \sqsubseteq conns[c].inbox

\* what the availability calculation gives for zone z on day d in the store bs,
\* es: with the event allocations from that day on, or without them
AvailableC23(zs, bs, es, z, d) ==
    {AvailabilityEndpoint(zs, bs, z, d),
     Max(0, zs[z].totalSlots - CountActive(bs, z, d) - EventSlots(es, z, d))}

\* C23: every zone_update broadcast after a reserve, a cancel, a check-out, an
\* expiry or an event creation carries the availability of the zone for the day
\* of the booking or event that changed, computed on the store as the step
\* leaves it.
CexC23 ==
    [][\A e \in BagToSet(sent' (-) sent) :
         /\ (e.type = "zone_update" /\ e.op \in {"reserve", "cancel", "checkout", "expire"}) =>
               e.available \in AvailableC23(zones', bookings', events', e.zoneId,
                                            bookings'[e.bid].date)
         /\ (e.type = "zone_update" /\ e.op = "event_create") =>
               \A n \in events' \ events :
                  e.available \in AvailableC23(zones', bookings', events', e.zoneId, n.date)]_vars

\* C24: a step that broadcasts leaves in the registry no member that was not
\* open or that missed one of the step's events because its send threw; a socket
\* enters the registry when it connects and is out of it once its close or
\* error event has been handled.
ThmC24 ==
    [][/\ \A c \in clients :
            LET D == sent' (-) sent IN
              (D # EmptyBag /\ (conns[c].readyState # "OPEN"
                                \/ conns'[c].inbox # conns[c].inbox (+) D))
                 => c \notin clients'
       /\ \A c \in Conns :
            /\ (conns[c].readyState = "NONE" /\ conns'[c].readyState = "OPEN")
                  => c \in clients'
            /\ (conns[c].readyState # "NONE" /\ conns'[c].readyState = "NONE")
                  => c \notin clients'
            /\ OnError(c) => c \notin clients']_vars

\* the answer to a reserve whose broadcasts emptied the registry: one socket had
\* dropped before, the other threw on the second event
WitC24 ==
    /\ out = Out("reserve", "ok")
    /\ clients = {}
    /\ \E c, d \in Conns :
          /\ conns[c].readyState = "CLOSING"
          /\ conns[c].isAlive
          /\ conns[c].inbox = EmptyBag
          /\ conns[d].readyState = "OPEN"
          /\ BagCardinality(conns[d].inbox) = 1

\* C25: a heartbeat tick terminates and unregisters exactly the tracked sockets
\* whose last ping is unanswered, so an open socket whose peer no longer answers
\* is still registered after at most one tick and gone at the second, and a
\* socket whose ping has been answered is left alone.
ThmC25 ==
    [][/\ Heartbeat =>
            \A c \in Conns :
               /\ (c \in clients /\ conns[c].readyState = "OPEN" /\ conns[c].awaiting)
                     => (c \notin clients' /\ conns'[c].readyState = "CLOSING")
               /\ (c \in clients /\ (c \notin clients' \/ conns'[c].readyState # conns[c].readyState))
                     => (~conns[c].isAlive
                         /\ (conns[c].readyState = "OPEN" => conns[c].awaiting))
       /\ \A c \in Conns :
            /\ conns'[c].silent <= 2
            /\ (c \in clients' /\ conns'[c].readyState = "OPEN") => conns'[c].silent <= 1]_vars

\* a socket terminated at the second tick after its peer went silent, next to a
\* registered socket that answered its ping
WitC25 ==
    \E c, d \in Conns :
       /\ c \notin clients
       /\ conns[c].readyState = "CLOSING"
       /\ conns[c].silent = 2
       /\ d \in clients
       /\ conns[d].readyState = "OPEN"
       /\ conns[d].answers
       /\ conns[d].isAlive
       /\ ~conns[d].awaiting

\* the reminders and the instants of the runs that send them: 24 hours and one
\* hour before startTime, and the run 20 minutes before endTime
LeadsC26(doc) ==
    {[title |-> "Parking Reminder - Tomorrow",
      at |-> (doc.startTime - HoursPerDay) * MinutesPerHour],
     [title |-> "Parking Reminder - 1 Hour", at |-> (doc.startTime - 1) * MinutesPerHour],
     [title |-> "Parking Expiring Soon", at |-> doc.endTime * MinutesPerHour - 20]}

RemindersC26(i, title) ==
    LET S == {n \in BagToSet(reminders) : n.bid = i /\ n.title = title} IN
      BagCardinality([n \in S |-> reminders[n]])

\* C26: once the run of a lead time of an active booking is over, the booking
\* has exactly one reminder of that lead time.
CexC26 ==
    \A i \in DOMAIN bookings :
       \A l \in LeadsC26(bookings[i]) :
          (bookings[i].status = "active" /\ l.at >= 10 /\ Clock >= l.at + 10)
             => RemindersC26(i, l.title) = 1

\* C27: every stored booking starts at the fixed daily start of its day and ends
\* duration hours later, also after it has been extended.
CexC27 ==
    \A i \in DOMAIN bookings :
       /\ bookings[i].startTime = bookings[i].date * HoursPerDay + StartHour
       /\ bookings[i].endTime = bookings[i].startTime + bookings[i].duration

\* C28: whatever runs of the sweep overlap, a booking carries at most one
\* violation recorded by an expiry and its user has at most one 'Booking
\* Expired' notification for it.
CexC28 ==
    \A i \in DOMAIN bookings :
       /\ Len(bookings[i].violations) <= 1
       /\ CopiesIn(Notif(bookings[i].userId, "Booking Expired", i), notifications) <= 1

\* C29: whenever no controller request is in progress, every zone has
\* 0 <= availableSlots <= totalSlots and totalSlots - availableSlots is the
\* number of its bookings that are active or checked-in.
CexC29 ==
    (\A p \in Procs : Free(p)) =>
       \A z \in ZoneIds :
          /\ zones[z].availableSlots >= 0
          /\ zones[z].availableSlots <= zones[z].totalSlots
          /\ zones[z].totalSlots - zones[z].availableSlots
                = Cardinality({i \in DOMAIN bookings :
                                 bookings[i].zoneId = z
                                 /\ bookings[i].status \in {"active", "checked-in"}})

\* C30: while nobody is logged in the client opens no WebSocket, so a reconnect
\* scheduled before or by the logout never connects; and the reconnect attempts
\* since the last open or logout never exceed MaxReconnects.
CexC30 ==
    [][/\ (~mobile.user /\ ~mobile'.user) =>
             \A k \in Socks :
                mobile'.socks[k] = "connecting" => mobile.socks[k] = "connecting"
       /\ mobile'.attempts <= MaxReconnects]_vars
====
